---- MODULE Spec2Model ----
(***************************************************************************)
(* A model of update_caldb.py: open_website, get_telescope_links and       *)
(* download_files.  Text is modelled character by character: a string is a *)
(* sequence of one-character strings, so that the regular expressions and  *)
(* the splits of the source are computed, not assumed.                     *)
(***************************************************************************)
EXTENDS Naturals, Sequences, FiniteSets

VARIABLES
    env,     \* os.getenv('CALDB'): "unset", "dir" (a directory) or "nodir"
    html,    \* the body the catalog URL serves (characters, lines joined by \n)
    files,   \* names of the files present in the CALDB directory
    cwd,     \* the process's working directory: "orig" or "caldb"
    pc,      \* position in download_files
    exc,     \* the exception that ended the run, "" when none
    links,   \* what get_telescope_links returned: [tag, items]
    idx,     \* position of the current loop in links.items()
    calls,   \* the calls of this run that reach outside the process, in order
    out,     \* diagnostics printed in this run, in order
    run,     \* number of the current run of the script
    prev     \* summary of the previous run

vars == <<env, html, files, cwd, pc, exc, links, idx, calls, out, run, prev>>

\* Bounds of the model.
MaxLines == 2
MaxRuns == 2

(***************************************************************************)
(* Characters and strings                                                  *)
(***************************************************************************)
Q == "\""
NL == "\n"
SLASH == "/"

Max(S) == CHOOSE x \in S : \A y \in S : y <= x
Min(S) == CHOOSE x \in S : \A y \in S : x <= y

\* s[i..] starts with w
At(s, i, w) ==
    /\ i >= 1
    /\ i + Len(w) - 1 <= Len(s)
    /\ SubSeq(s, i, i + Len(w) - 1) = w

Positions(s, c) == {i \in 1..Len(s) : s[i] = c}

\* str.upper(), on the characters the model uses
Upper(c) ==
    CASE c = "a" -> "A"
      [] c = "d" -> "D"
      [] c = "t" -> "T"
      [] c = "n" -> "N"
      [] c = "u" -> "U"
      [] c = "x" -> "X"
      [] c = "y" -> "Y"
      [] OTHER -> c

UpperStr(s) == [i \in 1..Len(s) |-> Upper(s[i])]

\* str.splitlines(): no empty last line after a final line break
RECURSIVE splitlines(_)
splitlines(s) ==
    IF s = <<>> THEN <<>>
    ELSE IF Positions(s, NL) = {} THEN <<s>>
    ELSE LET p == Min(Positions(s, NL))
         IN  <<SubSeq(s, 1, p - 1)>> \o splitlines(SubSeq(s, p + 1, Len(s)))

\* s.rsplit(sep, n): at most n splits, taken from the right
RECURSIVE rsplit(_, _, _)
rsplit(s, sep, n) ==
    IF n = 0 \/ Positions(s, sep) = {} THEN <<s>>
    ELSE LET p == Max(Positions(s, sep))
         IN  rsplit(SubSeq(s, 1, p - 1), sep, n - 1) \o <<SubSeq(s, p + 1, Len(s))>>

\* s.split(sep)[0]
SplitFirst(s, sep) ==
    IF Positions(s, sep) = {} THEN s
    ELSE SubSeq(s, 1, Min(Positions(s, sep)) - 1)

\* link.split('/')[-1]
LastSegment(link) ==
    IF Positions(link, SLASH) = {} THEN link
    ELSE SubSeq(link, Max(Positions(link, SLASH)) + 1, Len(link))

HREFu == <<"H", "R", "E", "F">>
HREFl == <<"h", "r", "e", "f">>
TarFileU == <<"T", "a", "r", " ", "f", "i", "l", "e">>
TarFileL == <<"t", "a", "r", " ", "f", "i", "l", "e">>

\* re.search('(A|a).*(HREF|href)=.*(T|t)ar file', line)
SearchTarAnchor(line) ==
    \E i \in 1..Len(line) :
        /\ line[i] \in {"A", "a"}
        /\ \E j \in (i + 1)..Len(line) :
              /\ At(line, j, HREFu \o <<"=">>) \/ At(line, j, HREFl \o <<"=">>)
              /\ \E k \in (j + 5)..Len(line) :
                    At(line, k, TarFileU) \/ At(line, k, TarFileL)

\* the starts of the matches of '(HREF|href)="(.*)"' in line
HrefStarts(line) ==
    {p \in 1..Len(line) :
        /\ At(line, p, HREFu \o <<"=", Q>>) \/ At(line, p, HREFl \o <<"=", Q>>)
        /\ \E q \in (p + 6)..Len(line) : line[q] = Q}

\* re.search('(HREF|href)="(.*)"', line).group(2): the leftmost match, its
\* group greedy up to the last quote of the line.  Defined when HrefStarts
\* is not empty; otherwise re.search returns None and .group raises.
HrefGroup(line) ==
    LET p == Min(HrefStarts(line))
        q == Max({k \in (p + 6)..Len(line) : line[k] = Q})
    IN  SubSeq(line, p + 6, q - 1)

\* if '"' in compressed_url: compressed_url = compressed_url.split('"')[0]
Truncate(u) == IF Positions(u, Q) # {} THEN SplitFirst(u, Q) ELSE u

(***************************************************************************)
(* The Link Table: a dict, which keeps insertion order.  An item is        *)
(* [key |-> <<mission, telescope>>, url |-> url].                          *)
(***************************************************************************)
\* Python values: None, a raised exception, a list, a dict
None == [tag |-> "none", items |-> <<>>]
Raised(e) == [tag |-> e, items |-> <<>>]
List(items) == [tag |-> "list", items |-> items]
Dict(items) == [tag |-> "dict", items |-> items]

\* DictSet as a table that keeps the first URL of a key
DictSet_first(items, k, v) ==
    IF \E i \in 1..Len(items) : items[i].key = k
    THEN items
    ELSE Append(items, [key |-> k, url |-> v])

DictSet(items, k, v) ==
    IF \E i \in 1..Len(items) : items[i].key = k
    THEN [i \in 1..Len(items) |->
             IF items[i].key = k THEN [key |-> k, url |-> v] ELSE items[i]]
    ELSE Append(items, [key |-> k, url |-> v])


\* what urlopen may do: answer, or fail with HTTPError, URLError or anything else
UrlopenOutcomes == {"ok", "HTTPError", "URLError", "other"}

\* open_website answering a failure with an empty list
open_website_empty(outcome, body) ==
    IF outcome = "ok" THEN List(splitlines(body)) ELSE List(<<>>)

\* open_website(url): the lines of the page, or None on any failure
open_website(outcome, body) ==
    IF outcome = "ok" THEN List(splitlines(body)) ELSE None

\* the loop passing over a line it cannot take apart
RECURSIVE ScanLines_skip(_, _, _)
ScanLines_skip(lines, i, items) ==
    IF i > Len(lines) THEN Dict(items)
    ELSE IF ~SearchTarAnchor(lines[i]) THEN ScanLines_skip(lines, i + 1, items)
    ELSE IF HrefStarts(lines[i]) = {} THEN ScanLines_skip(lines, i + 1, items)
    ELSE LET compressed_url == Truncate(HrefGroup(lines[i]))
             parts == rsplit(compressed_url, SLASH, 3)
         IN  IF Len(parts) # 4 THEN ScanLines_skip(lines, i + 1, items)
             ELSE ScanLines_skip(lines, i + 1,
                                 DictSet(items, <<parts[2], parts[3]>>, compressed_url))

\* the loop of get_telescope_links over lines[i..]
RECURSIVE ScanLines(_, _, _)
ScanLines(lines, i, items) ==
    IF i > Len(lines) THEN Dict(items)
    ELSE IF ~SearchTarAnchor(lines[i]) THEN ScanLines(lines, i + 1, items)
    ELSE IF HrefStarts(lines[i]) = {} THEN Raised("AttributeError")
    ELSE LET compressed_url == Truncate(HrefGroup(lines[i]))
             parts == rsplit(compressed_url, SLASH, 3)
         IN  IF Len(parts) # 4 THEN Raised("ValueError")
             ELSE ScanLines(lines, i + 1,
                            DictSet(items, <<parts[2], parts[3]>>, compressed_url))

get_telescope_links(outcome, body) ==
    LET lines == open_website(outcome, body)
    IN  IF lines.tag = "none" THEN None
        ELSE ScanLines(lines.items, 1, <<>>)

(***************************************************************************)
(* The catalog pages the model serves.  Each line is one case of the       *)
(* scan: well-formed anchors (upper and lower case, a second attribute     *)
(* after the href, keys and file names that repeat, the mission "data"),   *)
(* anchors that are not "tar file" anchors, and malformed ones.            *)
(***************************************************************************)
AncU == <<"<", "A", " ">> \o HREFu \o <<"=", Q>>
AncL == <<"<", "a", " ">> \o HREFl \o <<"=", Q>>
EndU == <<Q, ">">> \o TarFileU
EndL == <<Q, ">">> \o TarFileL

\* <A HREF="h/nu/x/f">Tar file
LineNuX == AncU \o <<"h", "/", "n", "u", "/", "x", "/", "f">> \o EndU
\* <a href="h/data/y/g">tar file
LineData == AncL \o <<"h", "/", "d", "a", "t", "a", "/", "y", "/", "g">> \o EndL
\* <a href="h/c/nu/x/g" id="q">tar file
LineNuX2 == AncL \o <<"h", "/", "c", "/", "n", "u", "/", "x", "/", "g">>
                 \o <<Q, " ", "i", "d", "=", Q, "q">> \o EndL
\* <a href="h/Data/y/f">tar file
LineDataCap == AncL \o <<"h", "/", "D", "a", "t", "a", "/", "y", "/", "f">> \o EndL
\* <a href="h/nu/y/">tar file        (the URL ends in a slash)
LineNoName == AncL \o <<"h", "/", "n", "u", "/", "y", "/">> \o EndL
\* <a href="nu/x/f">tar file         (two slashes only)
LineShort == AncL \o <<"n", "u", "/", "x", "/", "f">> \o EndL
\* <a href="f">tar file              (no slash at all)
LineBare == AncL \o <<"f">> \o EndL
\* <a href=h/nu/y/f>tar file         (no quotes around the href)
LineNoQuote == <<"<", "a", " ">> \o HREFl
                 \o <<"=", "h", "/", "n", "u", "/", "y", "/", "f", ">">> \o TarFileL
\* <a href="h/nu/y/f">zip file
LineZip == AncL \o <<"h", "/", "n", "u", "/", "y", "/", "f">>
                \o <<Q, ">", "z", "i", "p", " ", "f", "i", "l", "e">>

CatalogLines ==
    {LineNuX, LineData, LineNuX2, LineDataCap, LineNoName, LineShort,
     LineBare, LineNoQuote, LineZip}

\* the lines of a page, joined by line breaks
RECURSIVE JoinLines(_)
JoinLines(ls) ==
    IF ls = <<>> THEN <<>>
    ELSE IF Len(ls) = 1 THEN ls[1]
    ELSE ls[1] \o <<NL>> \o JoinLines(Tail(ls))

Pages == UNION {[1..n -> CatalogLines] : n \in 0..MaxLines}

\* archive names that may already lie in the CALDB directory
ArchiveNames == {<<"f">>, <<"g">>}

(***************************************************************************)
(* download_files                                                          *)
(***************************************************************************)
Unassigned == [tag |-> "unassigned", items |-> <<>>]
NoRun == [got |-> FALSE, returned |-> FALSE, missing |-> FALSE, fetched |-> 0]

\* a call: the operation, the Link Table entry it is for (0: none), its
\* arguments, how it ended and the text it printed
Call(op, i, arg, r, text) == [op |-> op, i |-> i, arg |-> arg, r |-> r, text |-> text]

Init ==
    /\ env \in {"unset", "dir", "nodir"}
    /\ html \in {JoinLines(p) : p \in Pages}
    /\ files \in SUBSET ArchiveNames
    /\ cwd = "orig"
    /\ pc = "start"
    /\ exc = ""
    /\ links = Unassigned
    /\ idx = 0
    /\ calls = <<>>
    /\ out = <<>>
    /\ run = 1
    /\ prev = NoRun

\* the test comparing with the empty string
caldb_unset_empty(e) == e = ""

\* caldb_dir is None
caldb_unset(e) == e = "unset"

\* lines 98-104: read CALDB, leave when it is not set, else change directory
Start ==
    /\ pc = "start"
    /\ IF caldb_unset(env)
       THEN /\ out' = Append(out, <<"CALDB environment variable not set. Exiting.">>)
            /\ pc' = "done"
            /\ UNCHANGED <<cwd, exc, calls>>
       ELSE /\ calls' = Append(calls, Call("chdir", 0, <<env>>,
                                           IF env = "dir" THEN "ok" ELSE "raise", <<>>))
            /\ IF env = "dir"
               THEN /\ cwd' = "caldb"
                    /\ pc' = "links"
                    /\ UNCHANGED exc
               ELSE /\ pc' = "crashed"
                    /\ exc' = "FileNotFoundError: chdir"
                    /\ UNCHANGED cwd
            /\ UNCHANGED out
    /\ UNCHANGED <<env, html, files, links, idx, run, prev>>

\* line 106: links = get_telescope_links(); what it raises leaves download_files
GetLinks ==
    /\ pc = "links"
    /\ \E outcome \in UrlopenOutcomes :
          LET r == get_telescope_links(outcome, html)
          IN  /\ calls' = Append(calls, Call("urlopen", 0, <<>>, outcome, <<>>))
              /\ out' = IF outcome = "ok" THEN out
                        ELSE Append(out, <<"open_website: ", outcome>>)
              /\ IF r.tag \in {"none", "dict"}
                 THEN /\ links' = r
                      /\ pc' = "download"
                      /\ idx' = 1
                      /\ UNCHANGED exc
                 ELSE /\ pc' = "crashed"
                      /\ exc' = r.tag
                      /\ UNCHANGED <<links, idx>>
    /\ UNCHANGED <<env, html, files, cwd, run, prev>>

\* the test never finding the file
os_path_exists_never(name, fs) == FALSE

\* the test inverted
os_path_exists_inverted(name, fs) == name \notin fs

\* os.path.exists(name), in the CALDB directory
os_path_exists(name, fs) == name \in fs

\* what urlretrieve(link, name) may do: write the file, or raise, leaving
\* nothing or a partial file; an empty name cannot be opened for writing
UrlretrieveOutcomes(name) ==
    IF name = <<>> THEN {"raise"} ELSE {"ok", "raise", "raise+partial"}

\* what subprocess.run(['tar', ...]) may do: exit 0, exit non-zero, or raise
\* because tar cannot be started
TarOutcomes == {"0", "1", "raise"}

\* an except clause for the download's errors only
Caught_urlerror(op) == op = "urlretrieve"

\* line 117, a bare except: whatever the try block raises is caught
Caught(op) == TRUE

Problem == <<"Problem downloading file.">>

\* line 109 when get_telescope_links returned None: None has no items()
DownloadNone ==
    /\ pc = "download"
    /\ links.tag = "none"
    /\ pc' = "crashed"
    /\ exc' = "AttributeError: items"
    /\ UNCHANGED <<env, html, files, cwd, links, idx, calls, out, run, prev>>

\* lines 109-110: an entry whose file exists is passed over
DownloadSkip ==
    /\ pc = "download"
    /\ links.tag = "dict"
    /\ idx <= Len(links.items)
    /\ LET name == LastSegment(links.items[idx].url)
       IN  /\ os_path_exists(name, files)
           /\ calls' = Append(calls, Call("exists", idx, name, "True", <<>>))
    /\ idx' = idx + 1
    /\ UNCHANGED <<env, html, files, cwd, pc, exc, links, out, run, prev>>

\* lines 110-118: download, then unpack; an exception ends the try block
DownloadFetch ==
    /\ pc = "download"
    /\ links.tag = "dict"
    /\ idx <= Len(links.items)
    /\ LET link == links.items[idx].url
           name == LastSegment(link)
           seen == Append(calls, Call("exists", idx, name, "False", <<>>))
       IN  /\ ~os_path_exists(name, files)
           /\ \E d \in UrlretrieveOutcomes(name) :
                 LET got == Append(seen, Call("urlretrieve", idx, link, d, <<>>))
                 IN  \/ /\ d = "ok"
                        /\ files' = files \cup {name}
                        /\ \E t \in TarOutcomes :
                              /\ calls' = Append(got,
                                    Call("tar", idx, <<"tar", "-xzf", name>>, t, <<>>))
                              /\ IF t # "raise"
                                 THEN /\ idx' = idx + 1
                                      /\ UNCHANGED <<pc, exc, out>>
                                 ELSE IF Caught("tar")
                                 THEN /\ out' = Append(out, Problem)
                                      /\ idx' = idx + 1
                                      /\ UNCHANGED <<pc, exc>>
                                 ELSE /\ pc' = "crashed"
                                      /\ exc' = "FileNotFoundError: tar"
                                      /\ UNCHANGED <<idx, out>>
                     \/ /\ d # "ok"
                        /\ files' = IF d = "raise+partial" THEN files \cup {name} ELSE files
                        /\ calls' = got
                        /\ IF Caught("urlretrieve")
                           THEN /\ out' = Append(out, Problem)
                                /\ idx' = idx + 1
                                /\ UNCHANGED <<pc, exc>>
                           ELSE /\ pc' = "crashed"
                                /\ exc' = "URLError: urlretrieve"
                                /\ UNCHANGED <<idx, out>>
    /\ UNCHANGED <<env, html, cwd, links, run, prev>>

\* the first loop is over: line 121 starts the second
DownloadEnd ==
    /\ pc = "download"
    /\ links.tag = "dict"
    /\ idx > Len(links.items)
    /\ pc' = "init"
    /\ idx' = 1
    /\ UNCHANGED <<env, html, files, cwd, exc, links, calls, out, run, prev>>

\* the test reading the telescope
is_data_telescope(key) == key[2] = <<"d", "a", "t", "a">>

\* key[0]=='data'
is_data(key) == key[1] = <<"d", "a", "t", "a">>

\* lines 123-124: continue
InitSkip ==
    /\ pc = "init"
    /\ idx <= Len(links.items)
    /\ is_data(links.items[idx].key)
    /\ idx' = idx + 1
    /\ UNCHANGED <<env, html, files, cwd, pc, exc, links, calls, out, run, prev>>

\* what subprocess.run(['caldbinfo', ...], capture_output=True) may do: raise
\* because caldbinfo cannot be started, or return an exit code and an output
Okay == <<"o", "k">>
ErrorU == <<"E", "R", "R", "O", "R">>
ErrorL == <<"e", "r", "r", "o", "r">>
CaldbinfoOutcomes ==
    {[r |-> "raise", text |-> <<>>],
     [r |-> "0", text |-> Okay],
     [r |-> "1", text |-> Okay],
     [r |-> "1", text |-> ErrorL],
     [r |-> "0", text |-> <<"n", "o", " ">> \o ErrorU]}

\* re.search('ERROR', text)
SearchError(text) == \E k \in 1..Len(text) : At(text, k, ErrorU)

\* lines 126-131: caldbinfo INST MISSION TELESCOPE; its exit code is not read
InitCaldbinfo ==
    /\ pc = "init"
    /\ idx <= Len(links.items)
    /\ ~is_data(links.items[idx].key)
    /\ LET key == links.items[idx].key
           argv == <<"caldbinfo", "INST", UpperStr(key[1]), UpperStr(key[2])>>
       IN  \E p \in CaldbinfoOutcomes :
             /\ calls' = Append(calls, Call("caldbinfo", idx, argv, p.r, p.text))
             /\ IF p.r = "raise"
                THEN /\ pc' = "crashed"
                     /\ exc' = "FileNotFoundError: caldbinfo"
                     /\ UNCHANGED <<idx, out>>
                ELSE /\ out' = IF SearchError(p.text)
                               THEN Append(out, <<"Problem downloading ",
                                                  LastSegment(links.items[idx].url)>>)
                               ELSE out
                     /\ idx' = idx + 1
                     /\ UNCHANGED <<pc, exc>>
    /\ UNCHANGED <<env, html, files, cwd, links, run, prev>>

\* the second loop is over: download_files returns
InitEnd ==
    /\ pc = "init"
    /\ idx > Len(links.items)
    /\ pc' = "done"
    /\ UNCHANGED <<env, html, files, cwd, exc, links, idx, calls, out, run, prev>>

\* whether some entry's archive is not in the directory (kept for the next
\* run, with the number of downloads this run tried and how it ended)
Missing(items, fs) ==
    \E i \in 1..Len(items) : LastSegment(items[i].url) \notin fs

\* the script is run again: a new process, the same environment, catalog and
\* directory
NextRun ==
    /\ pc \in {"done", "crashed"}
    /\ run < MaxRuns
    /\ run' = run + 1
    /\ prev' = [got |-> links.tag = "dict",
                returned |-> pc = "done",
                missing |-> links.tag = "dict" /\ Missing(links.items, files),
                fetched |-> Cardinality({k \in 1..Len(calls) :
                                            calls[k].op = "urlretrieve"})]
    /\ cwd' = "orig"
    /\ pc' = "start"
    /\ exc' = ""
    /\ links' = Unassigned
    /\ idx' = 0
    /\ calls' = <<>>
    /\ out' = <<>>
    /\ UNCHANGED <<env, html, files>>

Next ==
    \/ Start
    \/ GetLinks
    \/ DownloadNone
    \/ DownloadSkip
    \/ DownloadFetch
    \/ DownloadEnd
    \/ InitSkip
    \/ InitCaldbinfo
    \/ InitEnd
    \/ NextRun

Spec == Init /\ [][Next]_vars

(***************************************************************************)
(* What the claims speak of, read off the state                            *)
(***************************************************************************)
DATA == <<"d", "a", "t", "a">>

CallsOf(op) == {k \in 1..Len(calls) : calls[k].op = op}
CallsFor(op, i) == {k \in CallsOf(op) : calls[k].i = i}

\* no download, no extraction and no caldbinfo invocation in this run
NoWork == CallsOf("urlretrieve") \cup CallsOf("tar") \cup CallsOf("caldbinfo") = {}

FetchFailed == \E k \in CallsOf("urlopen") : calls[k].r # "ok"
FetchOk == \E k \in CallsOf("urlopen") : calls[k].r = "ok"

\* the entries the download pass has visited
Visited == {calls[k].i : k \in CallsOf("exists")}

\* the exceptions raised inside the try block of the download pass
RaisedInTry ==
    {k \in CallsOf("urlretrieve") : calls[k].r # "ok"}
        \cup {k \in CallsOf("tar") : calls[k].r = "raise"}

\* A line of the form <a href="URL"...>...tar file, read from its left end:
\* the URL runs from the tenth character to the next quote.
HasOpener(line) == At(line, 1, AncU) \/ At(line, 1, AncL)
ClosingQuote(line) == Min({k \in 10..Len(line) : line[k] = Q})
UrlOf(line) == SubSeq(line, 10, ClosingQuote(line) - 1)
TarAnchor(line) ==
    /\ HasOpener(line)
    /\ \E k \in 10..Len(line) : line[k] = Q
    /\ \E k \in (ClosingQuote(line) + 1)..Len(line) :
          At(line, k, TarFileU) \/ At(line, k, TarFileL)
Slashes(u) == Cardinality(Positions(u, SLASH))
WellFormed(line) == TarAnchor(line) /\ Slashes(UrlOf(line)) >= 3
TooShort(line) == TarAnchor(line) /\ Slashes(UrlOf(line)) < 3

\* mission and telescope: what lies between the last three slashes of the URL
KeyOf(line) ==
    LET u == UrlOf(line)
        s1 == Max(Positions(u, SLASH))
        s2 == Max(Positions(u, SLASH) \ {s1})
        s3 == Max(Positions(u, SLASH) \ {s1, s2})
    IN  <<SubSeq(u, s3 + 1, s2 - 1), SubSeq(u, s2 + 1, s1 - 1)>>

PageLines == splitlines(html)
WellFormedLines == {i \in 1..Len(PageLines) : WellFormed(PageLines[i])}

(***************************************************************************)
(* The claims                                                              *)
(***************************************************************************)

\* C1: when the fetch of the catalog page fails, get_telescope_links returns
\* None and the run ends (on line 109, without reaching either loop body):
\* nothing is downloaded, extracted or passed to caldbinfo.
C1_FetchFailureStopsRun ==
    FetchFailed =>
        /\ links = None
        /\ pc \in {"download", "crashed"}
        /\ pc = "crashed" => exc = "AttributeError: items"
        /\ NoWork

\* C1 witness: the fetch failed for a page with two archives to download into
\* an empty directory, and the run is over.
C1_Witness ==
    /\ FetchFailed
    /\ pc = "crashed"
    /\ html = JoinLines(<<LineNuX, LineDataCap>>)
    /\ files = {}

\* C2: a run never ends in an unhandled exception caused by a failed fetch, a
\* failed download or a failing external tool (the only crashes left are a
\* missing CALDB directory and a malformed catalog line).
C2_NoUnhandledFailure ==
    pc = "crashed" =>
        exc \in {"FileNotFoundError: chdir", "ValueError", "AttributeError"}

C4_FailingEntryDoesNotAbort ==
    links.tag = "dict" =>
        /\ pc \in {"download", "init", "done", "crashed"}
        /\ pc = "download" => Visited = 1..(idx - 1)
        /\ pc # "download" => Visited = 1..Len(links.items)
        /\ pc = "crashed" => exc = "FileNotFoundError: caldbinfo"
        /\ Cardinality(RaisedInTry)
             = Cardinality({k \in 1..Len(out) : out[k] = Problem})

\* C4 witness: the extraction of the first entry raised, the download of the
\* second raised, and the initialization pass still ran for both.
C4_Witness ==
    /\ pc = "done"
    /\ Len(links.items) = 2
    /\ \E k \in CallsFor("tar", 1) : calls[k].r = "raise"
    /\ \E k \in CallsFor("urlretrieve", 2) : calls[k].r = "raise"
    /\ CallsFor("caldbinfo", 1) # {}
    /\ CallsFor("caldbinfo", 2) # {}

\* C5: caldbinfo is never invoked for an entry whose mission is "data".
C5_DataNeverInitialized ==
    \A k \in CallsOf("caldbinfo") : links.items[calls[k].i].key[1] # DATA

\* C5 witness: a "data" entry was downloaded and unpacked, the run went
\* through the initialization pass and invoked caldbinfo for the other entry.
C5_Witness ==
    /\ pc = "done"
    /\ Len(links.items) = 2
    /\ links.items[1].key[1] = DATA
    /\ \E k \in CallsFor("urlretrieve", 1) : calls[k].r = "ok"
    /\ CallsFor("caldbinfo", 1) = {}
    /\ CallsFor("caldbinfo", 2) # {}

\* C6: when a run that got its Link Table ends, caldbinfo has been invoked
\* exactly once for every entry whose mission is not "data".
C6_EachEntryInitializedOnce ==
    (links.tag = "dict" /\ pc \in {"done", "crashed"}) =>
        \A i \in 1..Len(links.items) :
            links.items[i].key[1] # DATA
                => Cardinality(CallsFor("caldbinfo", i)) = 1

\* C7: with CALDB not set, the run prints its message and returns: no change
\* of directory, no fetch, no download, no external command, no exception.
C7_UnsetCaldbEndsCleanly ==
    env = "unset" =>
        /\ pc \in {"start", "done"}
        /\ exc = ""
        /\ cwd = "orig"
        /\ calls = <<>>
        /\ links = Unassigned
        /\ pc = "done" =>
              out = <<<<"CALDB environment variable not set. Exiting.">>>>

\* C7 witness: CALDB is not set, the catalog has an archive, and the run
\* has returned.
C7_Witness ==
    /\ env = "unset"
    /\ pc = "done"
    /\ html = JoinLines(<<LineNuX>>)

\* C8: the Link Table returned for a page has one entry per (mission,
\* telescope) pair of its well-formed "tar file" anchors and no other entry;
\* the pair is what lies between the last three slashes of the URL; an entry
\* maps to the URL of the last line with its pair; with N such lines of
\* distinct pairs it has N entries.  (Stated where get_telescope_links has
\* just returned; the table is not written to afterwards.)
C8_LinkTable ==
    (pc = "download" /\ idx = 1 /\ links.tag = "dict") =>
        LET L == PageLines
            W == WellFormedLines
            it == links.items
        IN  /\ \A i \in W :
                  \E e \in 1..Len(it) :
                      /\ it[e].key = KeyOf(L[i])
                      /\ it[e].url =
                            UrlOf(L[Max({j \in W : KeyOf(L[j]) = KeyOf(L[i])})])
            /\ \A e \in 1..Len(it) : \E i \in W : KeyOf(L[i]) = it[e].key
            /\ \A e, d \in 1..Len(it) : it[e].key = it[d].key => e = d
            /\ (\A i, j \in W : KeyOf(L[i]) = KeyOf(L[j]) => i = j)
                  => Len(it) = Cardinality(W)

\* C8 witness: two well-formed lines with the same pair and different URLs;
\* the table holds the URL of the second.
C8_Witness ==
    /\ html = JoinLines(<<LineNuX, LineNuX2>>)
    /\ pc = "download" /\ idx = 1
    /\ links.tag = "dict"
    /\ Len(links.items) = 1
    /\ links.items[1].key = <<<<"n", "u">>, <<"x">>>>
    /\ links.items[1].url = <<"h", "/", "c", "/", "n", "u", "/", "x", "/", "g">>

\* C9: when the fetched page has a "tar file" anchor whose URL has fewer than
\* three slashes, get_telescope_links raises (ValueError, unless a line
\* without a quoted href raised before), no Link Table is returned and the
\* run ends without a file check, download, extraction or caldbinfo call.
C9_ShortUrlFailsRun ==
    FetchOk =>
        LET L == PageLines
            lineset == {L[i] : i \in 1..Len(L)}
        IN  (\E l \in lineset : TooShort(l)) =>
                /\ pc = "crashed"
                /\ exc \in {"ValueError", "AttributeError"}
                /\ LineNoQuote \notin lineset => exc = "ValueError"
                /\ links = Unassigned
                /\ NoWork
                /\ Visited = {}

\* C9 witness: a well-formed line, then a line with two slashes; the run has
\* ended on the ValueError.
C9_Witness ==
    /\ html = JoinLines(<<LineNuX, LineShort>>)
    /\ FetchOk
    /\ pc = "crashed"
    /\ exc = "ValueError"
    /\ files = {}

\* the calls a step adds
NewCalls == SubSeq(calls', Len(calls) + 1, Len(calls'))

\* C10: a step of the download pass for an entry calls urlretrieve exactly
\* when the file named by the last segment of the entry's URL is not in the
\* directory; tar -xzf follows only a urlretrieve of the same entry that
\* returned, in the same step; with the file there, neither is called; and
\* no other step downloads or extracts.
C10_DownloadOnlyWhenAbsent ==
    [][ IF pc = "download" /\ links.tag = "dict" /\ idx <= Len(links.items)
        THEN LET link == links.items[idx].url
                 name == LastSegment(link)
                 new == NewCalls
                 did(op) == \E k \in 1..Len(new) : new[k].op = op
             IN  /\ \A k \in 1..Len(new) : new[k].i = idx
                 /\ did("urlretrieve") <=> name \notin files
                 /\ name \in files => ~did("tar")
                 /\ did("tar") =>
                       /\ Len(new) = 3
                       /\ new[2] = Call("urlretrieve", idx, link, "ok", <<>>)
                       /\ new[3].op = "tar"
                       /\ new[3].arg = <<"tar", "-xzf", name>>
                 /\ \A k \in 1..Len(new) :
                       new[k].op = "urlretrieve" =>
                           /\ new[k].arg = link
                           /\ \A j \in 1..Len(new) : new[j].op = "tar" => k < j
        ELSE Len(calls') > Len(calls) =>
                \A k \in 1..Len(NewCalls) :
                    NewCalls[k].op \notin {"urlretrieve", "tar"}
      ]_vars

\* C10 witness: the download of the first entry failed and left a partial
\* file; the second entry has the same file name and was passed over; nothing
\* was extracted in the run.
C10_Witness ==
    /\ pc = "done"
    /\ Len(links.items) = 2
    /\ LastSegment(links.items[1].url) = LastSegment(links.items[2].url)
    /\ \E k \in CallsFor("urlretrieve", 1) : calls[k].r = "raise+partial"
    /\ \E k \in CallsFor("exists", 2) : calls[k].r = "True"
    /\ CallsFor("urlretrieve", 2) = {}
    /\ CallsOf("tar") = {}

====
